---- MODULE Spec2Model ----
(***************************************************************************)
(* HUMMBL decomposition operator (transformations/decomposition.py).       *)
(*                                                                         *)
(* The pipeline of DecompositionOperator.decompose is modelled pass by     *)
(* pass.  Problem texts are strings; TLC treats a string as the sequence   *)
(* of its characters (Len, SubSeq, Head, Tail and \o apply to it), so the  *)
(* substring tests and the regular expressions of the source are computed  *)
(* on characters, as the source computes them.                             *)
(*                                                                         *)
(* Numbers: a coupling score is the fraction num/den, kept as the pair     *)
(* [num, den]; criticality scores and confidences are kept in hundredths   *)
(* (0.95 is 95).  A component id "comp_<n>" is kept as the number n.       *)
(***************************************************************************)
EXTENDS Integers, Sequences, FiniteSets, TLC

\* ------------------------------------------------------------------ bounds

\* Longest problem text, in vocabulary words.
MaxWords == 3

\* Calls made on one DecompositionOperator in the reuse specification.
MaxCalls == 2

\* Longest text of the chain specification, in words.
MaxChainWords == 5

\* Longest component list _detect_noise is applied to on its own.
MaxNoiseComponents == 4

\* Longest component list _calculate_coupling is applied to on its own.
MaxCouplingComponents == 3

\* --------------------------------------------------------------- characters

LowerLetters ==
    {"a","b","c","d","e","f","g","h","i","j","k","l","m",
     "n","o","p","q","r","s","t","u","v","w","x","y","z"}

UpperLetters ==
    {"A","B","C","D","E","F","G","H","I","J","K","L","M",
     "N","O","P","Q","R","S","T","U","V","W","X","Y","Z"}

Digits == {"0","1","2","3","4","5","6","7","8","9"}

\* \w of the regular expressions (ASCII part).
WordChars == LowerLetters \cup UpperLetters \cup Digits \cup {"_"}

\* \s of the regular expressions and the characters str.strip() removes.
Whitespace == {" ", "\t", "\n", "\r"}

\* str.lower() on one character.
LowerChar(c) ==
    CASE c = "A" -> "a" [] c = "B" -> "b" [] c = "C" -> "c" [] c = "D" -> "d"
      [] c = "E" -> "e" [] c = "F" -> "f" [] c = "G" -> "g" [] c = "H" -> "h"
      [] c = "I" -> "i" [] c = "J" -> "j" [] c = "K" -> "k" [] c = "L" -> "l"
      [] c = "M" -> "m" [] c = "N" -> "n" [] c = "O" -> "o" [] c = "P" -> "p"
      [] c = "Q" -> "q" [] c = "R" -> "r" [] c = "S" -> "s" [] c = "T" -> "t"
      [] c = "U" -> "u" [] c = "V" -> "v" [] c = "W" -> "w" [] c = "X" -> "x"
      [] c = "Y" -> "y" [] c = "Z" -> "z" [] OTHER -> c

RECURSIVE Lower(_)
\* str.lower(): every character lowered (computed by halves).
Lower(s) ==
    IF Len(s) = 0 THEN ""
    ELSE IF Len(s) = 1 THEN LowerChar(s)
    ELSE Lower(SubSeq(s, 1, Len(s) \div 2))
         \o Lower(SubSeq(s, Len(s) \div 2 + 1, Len(s)))

\* The character of s at position i (1-based), "" outside s.
CharAt(s, i) == IF i >= 1 /\ i <= Len(s) THEN SubSeq(s, i, i) ELSE ""

\* Python's `d in s` on strings.
Contains(s, d) ==
    \E i \in 1..(Len(s) - Len(d) + 1) : SubSeq(s, i, i + Len(d) - 1) = d

\* Every character of s is in the class cls.
AllIn(s, cls) == \A i \in 1..Len(s) : CharAt(s, i) \in cls

RECURSIVE Strip(_)
\* str.strip().
Strip(s) ==
    IF s = "" THEN ""
    ELSE IF Head(s) \in Whitespace THEN Strip(Tail(s))
    ELSE IF CharAt(s, Len(s)) \in Whitespace THEN Strip(SubSeq(s, 1, Len(s) - 1))
    ELSE s

\* The end of the maximal stretch of characters of class cls that starts at i
\* (i - 1 when the character at i is not in cls).
StretchEnd(s, i, cls) ==
    LET stops == { j \in i..Len(s) : CharAt(s, j) \notin cls }
    IN  IF stops = {} THEN Len(s)
        ELSE (CHOOSE j \in stops : \A k \in stops : j <= k) - 1

\* \b at the gap before position i of s (between s[i-1] and s[i]).
Boundary(s, i) == (CharAt(s, i - 1) \in WordChars) # (CharAt(s, i) \in WordChars)

\* The maximal \w-runs of s as position pairs <<first, last>>.
WordRuns(s) ==
    { <<i, StretchEnd(s, i, WordChars)>> :
        i \in { j \in 1..Len(s) : CharAt(s, j) \in WordChars
                                  /\ CharAt(s, j - 1) \notin WordChars } }

\* The text of a run <<first, last>> of s.
RunText(s, r) == SubSeq(s, r[1], r[2])

\* All orders in which list(<set>) may yield the members of S: the iteration
\* order of a Python set of strings is not fixed by the program.
ListOrders(S) ==
    { o \in [1..Cardinality(S) -> S] : \A i, j \in DOMAIN o : i # j => o[i] # o[j] }

\* ---------------------------------------------------------------- extractor

\* The vocabulary of the three action_patterns.
ActionWords ==
    {"build", "create", "implement", "develop", "design", "setup", "configure",
     "install", "deploy", "integrate", "test", "validate", "optimize",
     "refactor", "migrate",
     "add", "remove", "update", "modify", "fix", "enhance", "improve",
     "analyze", "evaluate", "assess", "review", "audit", "investigate"}

\* _extract_actions, before list(): each pattern is \b(w1|w2|...)\b with
\* re.IGNORECASE and its words have only \w characters, so a match is exactly a
\* maximal \w-run that equals a word of the vocabulary once lowered.
ExtractActions(text) ==
    { Lower(RunText(text, r)) : r \in WordRuns(text) } \cap ActionWords

\* The vocabulary of tech_pattern, lowered.
TechWords ==
    {"api", "mcp", "server", "database", "worker", "service", "function",
     "component", "module", "system", "cache", "storage", "queue", "d1", "r2",
     "kv", "cloudflare"}

skip_words == {"The", "A", "An", "In", "On", "For", "With", "To", "From", "By"}

\* cap_pattern \b[A-Z][a-zA-Z]+\b: a maximal \w-run of two or more letters
\* whose first is an upper-case letter.
IsCapWord(w) ==
    /\ Len(w) >= 2
    /\ Head(w) \in UpperLetters
    /\ AllIn(w, LowerLetters \cup UpperLetters)

\* _extract_entities, before list().
ExtractEntities(text) ==
    LET runs == { RunText(text, r) : r \in WordRuns(text) }
    IN  ({ Lower(w) : w \in runs } \cap TechWords)
        \cup { Lower(w) : w \in { v \in runs : IsCapWord(v) /\ v \notin skip_words } }

\* The matches of \b(\d+\s+(u1|u2|...)s?)\b (plural TRUE) or of \b(\d+\s+u)\b
\* in text, lowered: an all-digit \w-run, white space, and a \w-run that is one
\* of the units, or one of them followed by "s".
CountedMatches(text, units, plural) ==
    LET runs == WordRuns(text)
        forms == units \cup (IF plural THEN { u \o "s" : u \in units } ELSE {})
    IN  { Lower(SubSeq(text, a[1], b[2])) :
            <<a, b>> \in { p \in runs \X runs :
                /\ AllIn(RunText(text, p[1]), Digits)
                /\ p[2][1] > p[1][2] + 1
                /\ AllIn(SubSeq(text, p[1][2] + 1, p[2][1] - 1), Whitespace)
                /\ Lower(RunText(text, p[2])) \in forms } }

\* The matches of \b<phrase>\b in text, lowered (phrase starts and ends with a
\* \w character).
PhraseMatches(text, phrase) ==
    { phrase : i \in { j \in 1..(Len(text) - Len(phrase) + 1) :
                        /\ Lower(SubSeq(text, j, j + Len(phrase) - 1)) = phrase
                        /\ Boundary(text, j)
                        /\ Boundary(text, j + Len(phrase)) } }

\* patterns['time']
TimeMatches(text) ==
    CountedMatches(text, {"day", "week", "month", "hour", "minute"}, TRUE)

\* patterns['budget']: \$\d+ | \bzero budget\b | no budget
BudgetMatches(text) ==
    { SubSeq(text, i, StretchEnd(text, i + 1, Digits)) :
        i \in { j \in 1..Len(text) : CharAt(text, j) = "$"
                                     /\ CharAt(text, j + 1) \in Digits } }
    \cup PhraseMatches(text, "zero budget")
    \cup (IF Contains(Lower(text), "no budget") THEN {"no budget"} ELSE {})

\* patterns['team']: \b(solo|alone|\d+\s+engineer(s)?|\d+\s+person)\b
TeamMatches(text) ==
    ({ Lower(RunText(text, r)) : r \in WordRuns(text) } \cap {"solo", "alone"})
    \cup CountedMatches(text, {"engineer"}, TRUE)
    \cup CountedMatches(text, {"person"}, FALSE)

\* _extract_constraints, before list(): the explicit constraints as given, and
\* the lowered matches of the three patterns.
ExtractConstraints(text, explicit) ==
    { explicit[i] : i \in DOMAIN explicit }
    \cup TimeMatches(text) \cup BudgetMatches(text) \cup TeamMatches(text)

\* -------------------------------------------------------- component builder

\* An Optional[str]: None is <<>>, the string e is <<e>>.
None == <<>>

\* common_pairs.get(action, [])
common_pairs(action) ==
    CASE action = "build"     -> <<"server", "api", "system", "component">>
      [] action = "deploy"    -> <<"worker", "service", "function">>
      [] action = "integrate" -> <<"database", "d1", "api", "service">>
      [] action = "configure" -> <<"server", "worker", "cache">>
      [] action = "test"      -> <<"function", "api", "component">>
      [] OTHER                -> <<>>

\* next((e for e in entities if pref in e), None)
FirstContaining(entities, pref) ==
    LET hits == { i \in DOMAIN entities : Contains(entities[i], pref) }
    IN  IF hits = {} THEN None
        ELSE <<entities[CHOOSE i \in hits : \A j \in hits : i <= j]>>

\* _find_related_entity: the match of the first preferred substring that has
\* one, else the first entity, else None.
FindRelatedEntity(action, entities) ==
    LET preferred == common_pairs(action)
        found == { k \in DOMAIN preferred :
                     FirstContaining(entities, preferred[k]) # None }
    IN  IF found # {}
        THEN FirstContaining(entities,
                             preferred[CHOOSE k \in found : \A j \in found : k <= j])
        ELSE IF entities # <<>> THEN <<entities[1]>> ELSE None

\* Component(...) for an action: description f"{action} {related_entity}" or
\* the action alone; coupling and criticality keep the dataclass defaults.
ActionComponent(id_counter, action, entities) ==
    LET related_entity == FindRelatedEntity(action, entities)
    IN  [id           |-> id_counter,
         description  |-> IF related_entity # None
                          THEN action \o " " \o related_entity[1] ELSE action,
         type         |-> "action",
         dependencies |-> <<>>,
         coupling     |-> [num |-> 1, den |-> 2, reason |-> <<"Initial estimate">>],
         criticality  |-> [score |-> 50, reason |-> <<"Initial estimate">>],
         metadata     |-> [extracted_from |-> "action: " \o action, confidence |-> 70]]

\* Component(...) for an unpaired entity.
EntityComponent(id_counter, entity) ==
    [id           |-> id_counter,
     description  |-> entity,
     type         |-> "entity",
     dependencies |-> <<>>,
     coupling     |-> [num |-> 3, den |-> 10, reason |-> <<"Entity component">>],
     criticality  |-> [score |-> 30, reason |-> <<"Supporting entity">>],
     metadata     |-> [extracted_from |-> "entity: " \o entity, confidence |-> 60]]

\* Component(...) for a constraint.
ConstraintComponent(id_counter, constraint) ==
    [id           |-> id_counter,
     description  |-> "respect constraint: " \o constraint,
     type         |-> "constraint",
     dependencies |-> <<>>,
     coupling     |-> [num |-> 4, den |-> 5,
                       reason |-> <<"Constraint impacts all components">>],
     criticality  |-> [score |-> 90, reason |-> <<"Constraint violation = failure">>],
     metadata     |-> [extracted_from |-> "constraint: " \o constraint,
                       confidence |-> 80]]

\* ' ' in description
HasSpace(description) == Contains(description, " ")

\* description.split(' ', 1)[1]: what follows the first space.
AfterFirstSpace(description) ==
    LET i == CHOOSE k \in 1..Len(description) :
                 /\ CharAt(description, k) = " "
                 /\ \A j \in 1..(k - 1) : CharAt(description, j) # " "
    IN  SubSeq(description, i + 1, Len(description))

\* _build_components with "id_counter += 1" missing from the constraint loop.
BuildComponentsStaleCounter(actions, entities, constraints) ==
    LET actionComps ==
            [i \in 1..Len(actions) |-> ActionComponent(i - 1, actions[i], entities)]
        paired_entities ==
            { AfterFirstSpace(actionComps[i].description) :
                i \in { k \in DOMAIN actionComps : HasSpace(actionComps[k].description) } }
        IsUnpaired(e) == e \notin paired_entities
        unpaired == SelectSeq(entities, IsUnpaired)
        entityComps ==
            [i \in 1..Len(unpaired) |->
                EntityComponent(Len(actions) + i - 1, unpaired[i])]
        constraintComps ==
            [i \in 1..Len(constraints) |->
                ConstraintComponent(Len(actions) + Len(unpaired), constraints[i])]
    IN  actionComps \o entityComps \o constraintComps

\* _build_components, the component list: the actions, then the entities no
\* action description was paired with, then the constraints, with ids counting
\* up from 0.
BuildComponents(actions, entities, constraints) ==
    LET actionComps ==
            [i \in 1..Len(actions) |-> ActionComponent(i - 1, actions[i], entities)]
        paired_entities ==
            { AfterFirstSpace(actionComps[i].description) :
                i \in { k \in DOMAIN actionComps : HasSpace(actionComps[k].description) } }
        IsUnpaired(e) == e \notin paired_entities
        unpaired == SelectSeq(entities, IsUnpaired)
        entityComps ==
            [i \in 1..Len(unpaired) |->
                EntityComponent(Len(actions) + i - 1, unpaired[i])]
        constraintComps ==
            [i \in 1..Len(constraints) |->
                ConstraintComponent(Len(actions) + Len(unpaired) + i - 1, constraints[i])]
    IN  actionComps \o entityComps \o constraintComps

\* The decision _build_components records.
ComponentDecision(components, actions, entities, constraints) ==
    [point     |-> "Component generation",
     rationale |-> <<"Generated", Len(components), "components from", Len(actions),
                     "actions", Len(entities), "entities", Len(constraints),
                     "constraints">>]

\* ------------------------------------------------------ dependency inferrer

SentenceEnds == {".", "!", "?"}

RECURSIVE SplitSentences(_)
\* [s.strip() for s in re.split(r'[.!?]+', text) if s.strip()]: the pieces
\* between sentence ends, stripped, the empty ones dropped (so splitting at each
\* end character gives the same list as splitting at each run of them).
SplitSentences(text) ==
    LET ends == { i \in 1..Len(text) : CharAt(text, i) \in SentenceEnds }
        keep(piece) == IF Strip(piece) = "" THEN <<>> ELSE <<Strip(piece)>>
    IN  IF ends = {} THEN keep(text)
        ELSE LET e == CHOOSE i \in ends : \A j \in ends : i <= j
             IN  keep(SubSeq(text, 1, e - 1))
                 \o SplitSentences(SubSeq(text, e + 1, Len(text)))

\* The list 'sequence' of _is_sequential.
sequence == <<"setup", "build", "configure", "test", "deploy", "integrate">>

\* next((i for i, s in enumerate(sequence) if s in action), -1)
SequenceIndex(action) ==
    LET hits == { i \in DOMAIN sequence : Contains(action, sequence[i]) }
    IN  IF hits = {} THEN -1
        ELSE (CHOOSE i \in hits : \A j \in hits : i <= j) - 1

\* _is_sequential answering for any two different places of the sequence,
\* whichever comes first.
IsSequentialEitherOrder(action1, action2) ==
    LET idx1 == SequenceIndex(action1)
        idx2 == SequenceIndex(action2)
    IN  idx1 # -1 /\ idx2 # -1 /\ idx2 # idx1

\* _is_sequential with the comparison of the two indices turned round.
IsSequentialReversed(action1, action2) ==
    LET idx1 == SequenceIndex(action1)
        idx2 == SequenceIndex(action2)
    IN  idx1 # -1 /\ idx2 # -1 /\ idx1 < idx2

\* _is_sequential
IsSequential(action1, action2) ==
    LET idx1 == SequenceIndex(action1)
        idx2 == SequenceIndex(action2)
    IN  idx1 # -1 /\ idx2 # -1 /\ idx2 < idx1

\* The sentences (lowered) that mention the description.
Relevant(lowered, description) ==
    { i \in DOMAIN lowered : Contains(lowered[i], Lower(description)) }

\* co_mentioned: some sentence relevant to comp mentions other too.
CoMentioned(lowered, comp, other) ==
    \E i \in Relevant(lowered, comp.description) :
        Contains(lowered[i], Lower(other.description))

\* The condition under which the co-mention loop appends other.id to
\* comp.dependencies.
CoMentionEdge(lowered, comp, other) ==
    /\ comp.id # other.id
    /\ CoMentioned(lowered, comp, other)
    /\ \/ comp.type = "action" /\ other.type = "entity"
       \/ /\ comp.type = "action" /\ other.type = "action"
          /\ IsSequential(comp.description, other.description)

\* The ids of the members of components that satisfy Test, in list order.
IdsWhere(components, Test(_)) ==
    LET picked == SelectSeq(components, Test)
    IN  [i \in 1..Len(picked) |-> picked[i].id]

\* _detect_dependencies with the constraint rule applied to actions only.
NewDependenciesActionsOnly(lowered, components, comp) ==
    LET IsEdge(other) == CoMentionEdge(lowered, comp, other)
        IsConstraint(other) == other.type = "constraint"
    IN  IdsWhere(components, IsEdge)
        \o (IF comp.type = "action"
            THEN IdsWhere(components, IsConstraint) ELSE <<>>)

\* _detect_dependencies with the constraint rule inside the loop over other:
\* every constraint is appended once for each component of the list.
NewDependenciesRuleInLoop(lowered, components, comp) ==
    LET IsEdge(other) == CoMentionEdge(lowered, comp, other)
        IsConstraint(other) == other.type = "constraint"
        constraints == IdsWhere(components, IsConstraint)
    IN  IdsWhere(components, IsEdge)
        \o (IF comp.type # "constraint"
            THEN [i \in 1..(Len(components) * Len(constraints)) |->
                     constraints[((i - 1) % Len(constraints)) + 1]]
            ELSE <<>>)

\* What _detect_dependencies appends to comp.dependencies: the co-mention
\* edges in component order, then, for a non-constraint, every constraint.
NewDependencies(lowered, components, comp) ==
    LET IsEdge(other) == CoMentionEdge(lowered, comp, other)
        IsConstraint(other) == other.type = "constraint"
    IN  IdsWhere(components, IsEdge)
        \o (IF comp.type # "constraint"
            THEN IdsWhere(components, IsConstraint) ELSE <<>>)

\* _detect_dependencies: the component list after the pass.
DetectDependencies(components, problem_text) ==
    LET sentences == SplitSentences(problem_text)
        lowered == [i \in DOMAIN sentences |-> Lower(sentences[i])]
    IN  [k \in DOMAIN components |->
            [components[k] EXCEPT
                !.dependencies = @ \o NewDependencies(lowered, components, components[k])]]

\* ------------------------------------------------------------------- scorer

\* x in list
InList(x, list) == \E i \in DOMAIN list : list[i] = x

\* The dependents of comp counted once for every occurrence of comp.id in a
\* dependencies list, not once for every component that lists it.
DependentCountByOccurrence(components, comp) ==
    Cardinality({ p \in UNION { { <<k, i>> : i \in DOMAIN components[k].dependencies } :
                                  k \in DOMAIN components } :
                    components[p[1]].dependencies[p[2]] = comp.id })

\* sum(1 for c in components if comp.id in c.dependencies)
DependentCount(components, comp) ==
    Cardinality({ k \in DOMAIN components : InList(comp.id, components[k].dependencies) })

Min(a, b) == IF a <= b THEN a ELSE b

Max(a, b) == IF a >= b THEN a ELSE b

\* _calculate_coupling with max_possible counting one connection for each
\* other component instead of two.
CouplingOfSingleCount(components, comp) ==
    LET dep_count == Len(comp.dependencies)
        dependent_count == DependentCount(components, comp)
        total_connections == dep_count + dependent_count
        max_possible == Len(components) - 1
        den == Max(max_possible, 1)
    IN  [num    |-> Min(total_connections, den),
         den    |-> den,
         reason |-> <<dep_count, "dependencies,", dependent_count, "dependents">>]

\* _calculate_coupling dividing by max_possible itself, without max(..., 1).
CouplingOfUnguarded(components, comp) ==
    LET dep_count == Len(comp.dependencies)
        dependent_count == DependentCount(components, comp)
        total_connections == dep_count + dependent_count
        max_possible == (Len(components) - 1) * 2
    IN  [num    |-> Min(total_connections, max_possible),
         den    |-> max_possible,
         reason |-> <<dep_count, "dependencies,", dependent_count, "dependents">>]

\* The coupling _calculate_coupling gives comp:
\* min(total_connections / max(max_possible, 1), 1.0) as num/den.
CouplingOf(components, comp) ==
    LET dep_count == Len(comp.dependencies)
        dependent_count == DependentCount(components, comp)
        total_connections == dep_count + dependent_count
        max_possible == (Len(components) - 1) * 2
        den == Max(max_possible, 1)
    IN  [num    |-> Min(total_connections, den),
         den    |-> den,
         reason |-> <<dep_count, "dependencies,", dependent_count, "dependents">>]

\* score > 0.7
HighlyCoupled(coupling) == 10 * coupling.num > 7 * coupling.den

\* _calculate_coupling: the component list after the pass.
CalculateCoupling(components) ==
    [k \in DOMAIN components |->
        [components[k] EXCEPT !.coupling = CouplingOf(components, components[k])]]

\* The warnings _calculate_coupling appends, in component order.
CouplingWarnings(scored) ==
    LET IsHigh(c) == HighlyCoupled(c.coupling)
        high == SelectSeq(scored, IsHigh)
    IN  [i \in 1..Len(high) |->
            <<"highly coupled", high[i].description,
              high[i].coupling.num, high[i].coupling.den>>]

\* _calculate_criticality without the branch for constraints.
CriticalityOfByCountOnly(components, comp) ==
    LET dependent_count == DependentCount(components, comp)
    IN  [score  |-> Min(30 + dependent_count * 15, 100),
         reason |-> <<dependent_count, "components depend on this">>]

\* The criticality _calculate_criticality gives comp, in hundredths.
CriticalityOf(components, comp) ==
    LET dependent_count == DependentCount(components, comp)
    IN  IF comp.type = "constraint"
        THEN [score |-> 95, reason |-> <<"Constraint affects all work">>]
        ELSE [score  |-> Min(30 + dependent_count * 15, 100),
              reason |-> <<dependent_count, "components depend on this">>]

\* _calculate_criticality: the component list after the pass.
CalculateCriticality(components) ==
    [k \in DOMAIN components |->
        [components[k] EXCEPT !.criticality = CriticalityOf(components, components[k])]]

\* ----------------------------------------------------------- graph analyzer

\* next(c for c in components if c.id == comp_id)
ComponentById(components, comp_id) ==
    components[CHOOSE k \in DOMAIN components :
                   /\ components[k].id = comp_id
                   /\ \A j \in DOMAIN components :
                          components[j].id = comp_id => k <= j]

RECURSIVE dfs(_, _, _)
RECURSIVE dfsEach(_, _, _)
\* dfs of _find_critical_path, on the walk state st = [visited, path]: a
\* visited id is left alone; otherwise the id is marked, its dependencies are
\* walked in list order, and the id is appended to path after them.
dfs(components, comp_id, st) ==
    IF comp_id \in st.visited THEN st
    ELSE LET comp == ComponentById(components, comp_id)
             after == dfsEach(components, comp.dependencies,
                              [st EXCEPT !.visited = @ \cup {comp_id}])
         IN  [after EXCEPT !.path = Append(@, comp_id)]

\* [dfs(dep_id) for dep_id in comp.dependencies]
dfsEach(components, deps, st) ==
    IF deps = <<>> THEN st
    ELSE dfsEach(components, Tail(deps), dfs(components, Head(deps), st))

\* max(...) answering with the last component of the greatest score.
MaxCriticalityLast(components) ==
    components[CHOOSE k \in DOMAIN components :
                   /\ \A j \in DOMAIN components :
                          components[j].criticality.score <= components[k].criticality.score
                   /\ \A j \in (k + 1)..Len(components) :
                          components[j].criticality.score < components[k].criticality.score]

\* max(components, key=lambda c: c.criticality['score']): the first component
\* with the greatest score.
MaxCriticality(components) ==
    components[CHOOSE k \in DOMAIN components :
                   /\ \A j \in DOMAIN components :
                          components[j].criticality.score <= components[k].criticality.score
                   /\ \A j \in 1..(k - 1) :
                          components[j].criticality.score < components[k].criticality.score]

\* list(reversed(path))
Reversed(list) == [i \in 1..Len(list) |-> list[Len(list) + 1 - i]]

\* max() of an empty list raises ValueError.
CriticalPathRaises(components) == components = <<>>

\* _find_critical_path returning path as the walk left it, not reversed.
FindCriticalPathUnreversed(components) ==
    LET start == MaxCriticality(components)
    IN  dfs(components, start.id, [visited |-> {}, path |-> <<>>]).path

\* _find_critical_path, when it returns.
FindCriticalPath(components) ==
    LET start == MaxCriticality(components)
    IN  Reversed(dfs(components, start.id, [visited |-> {}, path |-> <<>>]).path)

\* has_dep_relation
HasDepRelation(comp, other) ==
    \/ InList(other.id, comp.dependencies)
    \/ InList(comp.id, other.dependencies)

\* The group _find_parallelizable builds for comp: comp.id, then the id of each
\* component not yet processed that has no dependency relation with comp.
GroupOf(components, comp, processed) ==
    LET Joins(other) ==
            /\ other.id \notin processed \cup {comp.id}
            /\ ~HasDepRelation(comp, other)
    IN  <<comp.id>> \o IdsWhere(components, Joins)

RECURSIVE ParallelFrom(_, _, _)
\* The outer loop of _find_parallelizable from position k on.
ParallelFrom(components, k, processed) ==
    IF k > Len(components) THEN <<>>
    ELSE IF components[k].id \in processed
         THEN ParallelFrom(components, k + 1, processed)
         ELSE LET group == GroupOf(components, components[k], processed)
                  rest == ParallelFrom(components, k + 1,
                              processed \cup { group[i] : i \in DOMAIN group })
              IN  IF Len(group) > 1 THEN <<group>> \o rest ELSE rest

\* _find_parallelizable
FindParallelizable(components) == ParallelFrom(components, 1, {})

RECURSIVE get_depth(_, _)
\* get_depth of _calculate_max_depth (the memo table changes no value).
get_depth(components, comp_id) ==
    LET comp == ComponentById(components, comp_id)
        dep_depths == { get_depth(components, comp.dependencies[i]) :
                          i \in DOMAIN comp.dependencies }
    IN  IF comp.dependencies = <<>> THEN 1
        ELSE (CHOOSE d \in dep_depths : \A e \in dep_depths : e <= d) + 1

\* _calculate_max_depth
CalculateMaxDepth(components) ==
    LET all_depths == { get_depth(components, components[k].id) : k \in DOMAIN components }
    IN  IF all_depths = {} THEN 1
        ELSE CHOOSE d \in all_depths : \A e \in all_depths : e <= d

\* len(problem_text) < 50
ShortTextLength == 50

vague_terms == {"maybe", "possibly", "might", "could", "approximately"}

\* _detect_noise testing the vague terms before the length.
DetectNoiseVagueFirst(problem_text, components) ==
    LET low_conf == { k \in DOMAIN components : components[k].metadata.confidence < 50 }
    IN  IF \E term \in vague_terms : Contains(Lower(problem_text), term)
        THEN <<"aleatory">>
        ELSE IF Len(problem_text) < ShortTextLength THEN <<"epistemic">>
        ELSE IF 10 * Cardinality(low_conf) > 3 * Len(components) THEN <<"human">>
        ELSE None

\* _detect_noise: the noise type, or None.
DetectNoise(problem_text, components) ==
    LET low_conf == { k \in DOMAIN components : components[k].metadata.confidence < 50 }
    IN  IF Len(problem_text) < ShortTextLength THEN <<"epistemic">>
        ELSE IF \E term \in vague_terms : Contains(Lower(problem_text), term)
             THEN <<"aleatory">>
        ELSE IF 10 * Cardinality(low_conf) > 3 * Len(components) THEN <<"human">>
        ELSE None

\* ------------------------------------------------------------------- inputs

\* A word longer than any vocabulary word, with no match in any pattern: two
\* of the vocabulary's shortest words beside it reach ShortTextLength.
Filler == "zzzzzzzzzzzzzzzzzzzzzzzzzzzzzzzzzzzzzzzzzzzz"

\* The words problem texts are made of: three actions (two of them in the
\* canonical sequence), two technical entities (one capitalised), a team
\* constraint, a sentence end and the filler.
Vocabulary ==
    {"build", "deploy", "create", "Server", "worker", "solo", ".", Filler}

RECURSIVE TextsOfWords(_, _)
\* The texts of exactly n words of the vocabulary, one space between words.
TextsOfWords(words, n) ==
    IF n = 0 THEN {""}
    ELSE IF n = 1 THEN words
    ELSE { t \o " " \o w : t \in TextsOfWords(words, n - 1), w \in words }

\* The problem texts decompose is called with.
Texts == UNION { TextsOfWords(Vocabulary, n) : n \in 0..MaxWords }

\* Texts of actions of the canonical sequence only, in one or more sentences:
\* long enough for an action to be depended on and to depend on another.
ChainVocabulary == {"setup", "build", "deploy", "."}

ChainTexts == UNION { TextsOfWords(ChainVocabulary, n) : n \in 0..MaxChainWords }

\* The arguments _detect_noise is applied to: texts on both sides of
\* ShortTextLength, with and without a vague term (in either case), and
\* component lists whose confidences lie on both sides of 0.5.
NoiseVocabulary == {"maybe", "Could", "build", Filler}

NoiseTexts == UNION { TextsOfWords(NoiseVocabulary, n) : n \in 0..MaxWords }

NoiseConfidences == {40, 60}

NoiseComponents ==
    UNION { [1..n -> { [EntityComponent(0, "api") EXCEPT !.metadata.confidence = c] :
                         c \in NoiseConfidences }] : n \in 0..MaxNoiseComponents }

\* The dependencies lists of a component among n whose id is own: up to two
\* ids of the other components, the same id twice included.
CouplingDependencies(n, own) ==
    LET others == (0..(n - 1)) \ {own}
    IN  {<<>>} \cup { <<a>> : a \in others } \cup { <<a, b>> : a, b \in others }

\* The list of n components with ids 0 to n - 1 in list order whose
\* dependencies lists are deps[1] to deps[n].
CouplingComponents(n, deps) ==
    [k \in 1..n |->
        [ActionComponent(k - 1, "build", <<>>) EXCEPT !.dependencies = deps[k]]]

\* The explicit constraint lists decompose is called with (none, or one).
Explicits == { <<>>, <<"2 weeks">> }

\* The calls made on a reused operator: a text with nothing to extract, one
\* with a constraint, and one whose actions come in several orders.
ReuseInputs ==
    { <<"", <<>>>>, <<"build Server", <<"2 weeks">>>>, <<"deploy . create solo", <<>>>> }

\* -------------------------------------------------------------------- state

VARIABLES
    heap,             \* the list objects: heap[r] is the content of list r
    self,             \* the operator's fields: the lists self.reasoning,
                      \* self.decisions and self.warnings refer to
    calls,            \* decompose calls begun so far (tags the entries of a call)
    pc,               \* "idle", or the pass the running call is about to make
    outcome,          \* how the last call ended: "none", "returned", "raised"
    problem_text,     \* the arguments of the running call
    explicit,
    actions,          \* the locals of the running call
    entities,
    all_constraints,
    components,
    parallelizable,
    critical_path,
    noise,
    results           \* the DecompositionResult values returned so far

vars == <<heap, self, calls, pc, outcome, problem_text, explicit, actions, entities,
          all_constraints, components, parallelizable, critical_path, noise, results>>

\* list.append on the list object r.
HeapAppend(h, r, entry) == [h EXCEPT ![r] = Append(@, entry)]

\* The accumulators emptied in place (list.clear()) instead of rebound.
ResetByClearing(h, fields) ==
    [heap |-> [h EXCEPT ![fields.reasoning] = <<>>, ![fields.decisions] = <<>>,
                        ![fields.warnings] = <<>>],
     self |-> fields]

\* self.reasoning = []; self.decisions = []; self.warnings = []: three new
\* list objects, to which the fields are rebound.
ResetAccumulators(h, fields) ==
    [heap |-> h \o << <<>>, <<>>, <<>> >>,
     self |-> [reasoning |-> Len(h) + 1, decisions |-> Len(h) + 2,
               warnings |-> Len(h) + 3]]

\* DecompositionOperator.__init__
Init ==
    /\ heap = << <<>>, <<>>, <<>> >>
    /\ self = [reasoning |-> 1, decisions |-> 2, warnings |-> 3]
    /\ calls = 0
    /\ pc = "idle"
    /\ outcome = "none"
    /\ problem_text = ""
    /\ explicit = <<>>
    /\ actions = <<>>
    /\ entities = <<>>
    /\ all_constraints = <<>>
    /\ components = <<>>
    /\ parallelizable = <<>>
    /\ critical_path = <<>>
    /\ noise = None
    /\ results = <<>>

\* decompose is entered with (text, constraints): the accumulators are reset.
Begin(text, constraints) ==
    /\ pc = "idle"
    /\ LET reset == ResetAccumulators(heap, self)
       IN  heap' = reset.heap /\ self' = reset.self
    /\ calls' = calls + 1
    /\ pc' = "pass1"
    /\ outcome' = "none"
    /\ problem_text' = text
    /\ explicit' = constraints
    /\ actions' = <<>>
    /\ entities' = <<>>
    /\ all_constraints' = <<>>
    /\ components' = <<>>
    /\ parallelizable' = <<>>
    /\ critical_path' = <<>>
    /\ noise' = None
    /\ UNCHANGED results

\* Pass 1: extract actions; list(actions) comes in any order.
Pass1 ==
    /\ pc = "pass1"
    /\ \E order \in ListOrders(ExtractActions(problem_text)) : actions' = order
    /\ heap' = HeapAppend(heap, self.reasoning, <<calls, "Pass 1: actions", Len(actions')>>)
    /\ pc' = "pass2"
    /\ UNCHANGED <<self, calls, outcome, problem_text, explicit, entities,
                   all_constraints, components, parallelizable, critical_path,
                   noise, results>>

\* Pass 2: extract entities.
Pass2 ==
    /\ pc = "pass2"
    /\ \E order \in ListOrders(ExtractEntities(problem_text)) : entities' = order
    /\ heap' = HeapAppend(heap, self.reasoning, <<calls, "Pass 2: entities", Len(entities')>>)
    /\ pc' = "pass3"
    /\ UNCHANGED <<self, calls, outcome, problem_text, explicit, actions,
                   all_constraints, components, parallelizable, critical_path,
                   noise, results>>

\* Pass 3: extract constraints.
Pass3 ==
    /\ pc = "pass3"
    /\ \E order \in ListOrders(ExtractConstraints(problem_text, explicit)) :
           all_constraints' = order
    /\ heap' = HeapAppend(heap, self.reasoning,
                          <<calls, "Pass 3: constraints", Len(all_constraints')>>)
    /\ pc' = "pass4"
    /\ UNCHANGED <<self, calls, outcome, problem_text, explicit, actions, entities,
                   components, parallelizable, critical_path, noise, results>>

\* Pass 4: build the components and record the decision.
Pass4 ==
    /\ pc = "pass4"
    /\ components' = BuildComponents(actions, entities, all_constraints)
    /\ heap' = HeapAppend(
                 HeapAppend(heap, self.decisions,
                            <<calls, ComponentDecision(components', actions, entities,
                                                       all_constraints)>>),
                 self.reasoning, <<calls, "Pass 4: components", Len(components')>>)
    /\ pc' = "pass5"
    /\ UNCHANGED <<self, calls, outcome, problem_text, explicit, actions, entities,
                   all_constraints, parallelizable, critical_path, noise, results>>

\* Pass 5: detect dependencies.
Pass5 ==
    /\ pc = "pass5"
    /\ components' = DetectDependencies(components, problem_text)
    /\ heap' = HeapAppend(heap, self.reasoning, <<calls, "Pass 5: Mapped dependencies">>)
    /\ pc' = "pass6"
    /\ UNCHANGED <<self, calls, outcome, problem_text, explicit, actions, entities,
                   all_constraints, parallelizable, critical_path, noise, results>>

RECURSIVE HeapAppendAll(_, _, _)
\* list.append of each entry in turn.
HeapAppendAll(h, r, entries) ==
    IF entries = <<>> THEN h
    ELSE HeapAppendAll(HeapAppend(h, r, Head(entries)), r, Tail(entries))

\* Pass 6: calculate coupling, warning of each highly coupled component.
Pass6 ==
    /\ pc = "pass6"
    /\ components' = CalculateCoupling(components)
    /\ LET warned == CouplingWarnings(components')
           tagged == [i \in 1..Len(warned) |-> <<calls>> \o warned[i]]
       IN  heap' = HeapAppend(HeapAppendAll(heap, self.warnings, tagged),
                              self.reasoning,
                              <<calls, "Pass 6: Calculated coupling scores">>)
    /\ pc' = "pass7"
    /\ UNCHANGED <<self, calls, outcome, problem_text, explicit, actions, entities,
                   all_constraints, parallelizable, critical_path, noise, results>>

\* Pass 7: determine criticality.
Pass7 ==
    /\ pc = "pass7"
    /\ components' = CalculateCriticality(components)
    /\ heap' = HeapAppend(heap, self.reasoning, <<calls, "Pass 7: Identified critical path">>)
    /\ pc' = "pass8"
    /\ UNCHANGED <<self, calls, outcome, problem_text, explicit, actions, entities,
                   all_constraints, parallelizable, critical_path, noise, results>>

\* Pass 8: the parallel groups, then the critical path; when max() raises
\* ValueError nothing catches it and the call ends without a result.
Pass8 ==
    /\ pc = "pass8"
    /\ parallelizable' = FindParallelizable(components)
    /\ IF CriticalPathRaises(components)
       THEN /\ pc' = "idle"
            /\ outcome' = "raised"
            /\ UNCHANGED critical_path
       ELSE /\ pc' = "finish"
            /\ critical_path' = FindCriticalPath(components)
            /\ UNCHANGED outcome
    /\ UNCHANGED <<heap, self, calls, problem_text, explicit, actions, entities,
                   all_constraints, components, noise, results>>

\* The DecompositionResult decompose returns: reasoning['steps'],
\* reasoning['decisions'] and warnings are the operator's own list objects.
\* (call is the number of the call that returned it; estimated_complexity and
\* confidence are left out.)
Result(call, fields, comps, path, groups, detected) ==
    [call           |-> call,
     components     |-> comps,
     critical_path  |-> path,
     parallelizable |-> groups,
     reasoning      |-> [steps |-> fields.reasoning, decisions |-> fields.decisions],
     metadata       |-> [total_components |-> Len(comps),
                         max_depth        |-> CalculateMaxDepth(comps),
                         noise_detected   |-> detected],
     warnings       |-> fields.warnings]

\* The rest of decompose: the duration step, the noise and its warning, and
\* the result.
Finish ==
    /\ pc = "finish"
    /\ noise' = DetectNoise(problem_text, components)
    /\ LET timed == HeapAppend(heap, self.reasoning, <<calls, "Decomposition completed">>)
       IN  heap' = IF noise' # None
                   THEN HeapAppend(timed, self.warnings, <<calls, "Detected noise", noise'[1]>>)
                   ELSE timed
    /\ results' = Append(results,
                         Result(calls, self, components, critical_path,
                                parallelizable, noise'))
    /\ pc' = "idle"
    /\ outcome' = "returned"
    /\ UNCHANGED <<self, calls, problem_text, explicit, actions, entities,
                   all_constraints, components, parallelizable, critical_path>>

\* decompose(problem_text, context, constraints), the module's function: one
\* call on a newly constructed operator.
Decompose ==
    /\ calls = 0
    /\ \E text \in Texts, constraints \in Explicits : Begin(text, constraints)

Next == Decompose \/ Pass1 \/ Pass2 \/ Pass3 \/ Pass4 \/ Pass5 \/ Pass6 \/ Pass7 \/ Pass8 \/ Finish

Spec == Init /\ [][Next]_vars

\* DecompositionOperator.decompose called again and again on one operator.
DecomposeAgain ==
    /\ calls < MaxCalls
    /\ pc = "idle"
    /\ \E input \in ReuseInputs : Begin(input[1], input[2])

NextReuse ==
    DecomposeAgain \/ Pass1 \/ Pass2 \/ Pass3 \/ Pass4 \/ Pass5 \/ Pass6 \/ Pass7 \/ Pass8 \/ Finish

SpecReuse == Init /\ [][NextReuse]_vars

\* decompose on a text of ChainTexts, without explicit constraints.
DecomposeChain ==
    /\ calls = 0
    /\ \E text \in ChainTexts : Begin(text, <<>>)

NextChain ==
    DecomposeChain \/ Pass1 \/ Pass2 \/ Pass3 \/ Pass4 \/ Pass5 \/ Pass6 \/ Pass7 \/ Pass8 \/ Finish

SpecChain == Init /\ [][NextChain]_vars

\* _detect_noise on its own: the arguments are drawn at the start.
InitNoise ==
    /\ heap = << <<>>, <<>>, <<>> >>
    /\ self = [reasoning |-> 1, decisions |-> 2, warnings |-> 3]
    /\ calls = 0
    /\ pc = "noise"
    /\ outcome = "none"
    /\ problem_text \in NoiseTexts
    /\ explicit = <<>>
    /\ actions = <<>>
    /\ entities = <<>>
    /\ all_constraints = <<>>
    /\ components \in NoiseComponents
    /\ parallelizable = <<>>
    /\ critical_path = <<>>
    /\ noise = None
    /\ results = <<>>

\* noise = self._detect_noise(problem_text, components)
DetectNoiseCall ==
    /\ pc = "noise"
    /\ noise' = DetectNoise(problem_text, components)
    /\ pc' = "noise_done"
    /\ UNCHANGED <<heap, self, calls, outcome, problem_text, explicit, actions,
                   entities, all_constraints, components, parallelizable,
                   critical_path, results>>

NextNoise == DetectNoiseCall

SpecNoise == InitNoise /\ [][NextNoise]_vars

\* _calculate_coupling on its own: the component list is drawn at the start,
\* with every choice of dependencies lists.
InitCoupling ==
    /\ heap = << <<>>, <<>>, <<>> >>
    /\ self = [reasoning |-> 1, decisions |-> 2, warnings |-> 3]
    /\ calls = 0
    /\ pc = "coupling"
    /\ outcome = "none"
    /\ problem_text = ""
    /\ explicit = <<>>
    /\ actions = <<>>
    /\ entities = <<>>
    /\ all_constraints = <<>>
    /\ \E n \in 0..MaxCouplingComponents :
           \E deps \in [1..n -> UNION { CouplingDependencies(n, own) : own \in 0..(n - 1) }] :
               /\ \A k \in 1..n : deps[k] \in CouplingDependencies(n, k - 1)
               /\ components = CouplingComponents(n, deps)
    /\ parallelizable = <<>>
    /\ critical_path = <<>>
    /\ noise = None
    /\ results = <<>>

\* self._calculate_coupling(components): the scores, and a warning appended to
\* self.warnings for each highly coupled component.
CalculateCouplingCall ==
    /\ pc = "coupling"
    /\ components' = CalculateCoupling(components)
    /\ LET warned == CouplingWarnings(components')
           tagged == [i \in 1..Len(warned) |-> <<calls>> \o warned[i]]
       IN  heap' = HeapAppendAll(heap, self.warnings, tagged)
    /\ pc' = "coupling_done"
    /\ UNCHANGED <<self, calls, outcome, problem_text, explicit, actions, entities,
                   all_constraints, parallelizable, critical_path, noise, results>>

NextCoupling == CalculateCouplingCall

SpecCoupling == InitCoupling /\ [][NextCoupling]_vars

\* ---------------------------------------------------------------- properties

\* The members of a list.
Range(list) == { list[i] : i \in DOMAIN list }

\* How far the running (or last) call has got: pass k is done when Position > k.
Position ==
    CASE pc = "pass1" -> 1 [] pc = "pass2" -> 2 [] pc = "pass3" -> 3
      [] pc = "pass4" -> 4 [] pc = "pass5" -> 5 [] pc = "pass6" -> 6
      [] pc = "pass7" -> 7 [] pc = "pass8" -> 8 [] pc = "finish" -> 9
      [] pc = "idle" /\ calls > 0 -> 10
      [] OTHER -> 0

AfterPass(k) == Position > k

\* The component lists of the results returned so far.
ReturnedComponents == { results[i].components : i \in DOMAIN results }

\* The components of comps whose id is comp_id.
WithId(comps, comp_id) == { k \in DOMAIN comps : comps[k].id = comp_id }

\* The components of comps that list comp_id among their dependencies.
Dependents(comps, comp_id) ==
    { k \in DOMAIN comps : comp_id \in Range(comps[k].dependencies) }

\* Nothing is extracted from the text of the call.
NothingExtracted ==
    /\ ExtractActions(problem_text) = {}
    /\ ExtractEntities(problem_text) = {}
    /\ ExtractConstraints(problem_text, explicit) = {}

\* C1: every call of decompose ends by returning a result, never by raising;
\* when nothing is extracted from the text, the result's components is the
\* empty list and its noise descriptor is of type 'epistemic'.
C1_DecomposeAlwaysReturns ==
    (pc = "idle" /\ calls > 0) =>
        /\ outcome = "returned"
        /\ NothingExtracted =>
              /\ results[Len(results)].components = <<>>
              /\ results[Len(results)].metadata.noise_detected = <<"epistemic">>

\* C2: in every result, no two distinct members of a parallelizable group
\* have a dependency edge between them, in either direction.
C2_GroupsPairwiseIndependent ==
    \A i \in DOMAIN results :
        LET comps == results[i].components
        IN  \A g \in DOMAIN results[i].parallelizable :
                \A a, b \in Range(results[i].parallelizable[g]) :
                    a # b => \A k \in WithId(comps, a) :
                                 b \notin Range(comps[k].dependencies)

\* C3: in every result, every id in a component's dependencies, in
\* critical_path or in a parallelizable group is the id of exactly one component.
C3_IdsResolve ==
    \A i \in DOMAIN results :
        LET comps == results[i].components
            used == UNION { Range(comps[k].dependencies) : k \in DOMAIN comps }
                    \cup Range(results[i].critical_path)
                    \cup UNION { Range(results[i].parallelizable[g]) :
                                   g \in DOMAIN results[i].parallelizable }
        IN  \A id \in used : Cardinality(WithId(comps, id)) = 1

\* A result with two constraints that components depend on, a critical path
\* and a parallelizable group.
C3_Witness ==
    \E i \in DOMAIN results :
        /\ Cardinality({ k \in DOMAIN results[i].components :
                           results[i].components[k].type = "constraint"
                           /\ Dependents(results[i].components,
                                         results[i].components[k].id) # {} }) >= 2
        /\ results[i].critical_path # <<>>
        /\ results[i].parallelizable # <<>>

\* A coupling score num/den and a criticality score (in hundredths) in [0,1].
InUnitInterval(comp) ==
    /\ comp.coupling.den > 0
    /\ 0 <= comp.coupling.num /\ comp.coupling.num <= comp.coupling.den
    /\ 0 <= comp.criticality.score /\ comp.criticality.score <= 100

\* C4: after the scoring passes, every component of a non-empty collection
\* has its coupling score and its criticality score in [0,1].
C4_ScoresInUnitInterval ==
    /\ AfterPass(7) => \A k \in DOMAIN components : InUnitInterval(components[k])
    /\ \A comps \in ReturnedComponents : \A k \in DOMAIN comps : InUnitInterval(comps[k])

\* The scoring passes are done and some component has a coupling score above
\* 0 and another (or the same) a criticality score above 0.3.
C4_Witness ==
    /\ AfterPass(7)
    /\ \E k \in DOMAIN components : components[k].coupling.num > 0
    /\ \E k \in DOMAIN components :
           components[k].type # "constraint" /\ components[k].criticality.score > 30

\* The text contains one of the vague terms, in any case.
HasVagueTerm(text) ==
    \E term \in {"maybe", "possibly", "might", "could", "approximately"} :
        Contains(Lower(text), term)

\* More than 30% of the components have a confidence below 0.5.
ManyLowConfidence(comps) ==
    10 * Cardinality({ k \in DOMAIN comps : comps[k].metadata.confidence < 50 })
        > 3 * Len(comps)

\* C5: the noise type is decided in a fixed order, the first match winning: a
\* text shorter than 50 characters gives 'epistemic' (also when it has a vague
\* term); otherwise a vague term gives 'aleatory'; otherwise more than 30% of
\* components with confidence below 0.5 give 'human'; otherwise there is none.
C5_NoisePriority ==
    pc = "noise_done" =>
        noise = IF Len(problem_text) < 50 THEN <<"epistemic">>
                ELSE IF HasVagueTerm(problem_text) THEN <<"aleatory">>
                ELSE IF ManyLowConfidence(components) THEN <<"human">>
                ELSE <<>>

\* _detect_noise has answered 'epistemic' for a short text that has a vague
\* term and comes with components of low confidence.
C5_Witness ==
    /\ pc = "noise_done"
    /\ Len(problem_text) < 50
    /\ HasVagueTerm(problem_text)
    /\ ManyLowConfidence(components)
    /\ noise = <<"epistemic">>

\* C6: after the criticality pass every constraint has criticality 0.95,
\* whatever its number of dependents, and every other component has
\* min(0.3 + 0.15 * k, 1.0), k being the number of components whose
\* dependencies contain its id.
C6_CriticalityScores ==
    AfterPass(7) =>
        \A k \in DOMAIN components :
            LET comp == components[k]
                dependents == Cardinality(Dependents(components, comp.id))
            IN  IF comp.type = "constraint"
                THEN comp.criticality.score = 95
                ELSE comp.criticality.score
                         = (IF 30 + 15 * dependents < 100
                            THEN 30 + 15 * dependents ELSE 100)

\* The criticality pass is done, a constraint has dependents and another
\* component has some too.
C6_Witness ==
    /\ AfterPass(7)
    /\ \E k \in DOMAIN components :
           /\ components[k].type = "constraint"
           /\ Dependents(components, components[k].id) # {}
    /\ \E k \in DOMAIN components :
           /\ components[k].type # "constraint"
           /\ Dependents(components, components[k].id) # {}

\* What a caller reads in a returned result, the lists followed to their
\* content.
ResultView(h, r) ==
    [components     |-> r.components,
     critical_path  |-> r.critical_path,
     parallelizable |-> r.parallelizable,
     steps          |-> h[r.reasoning.steps],
     decisions      |-> h[r.reasoning.decisions],
     warnings       |-> h[r.warnings],
     metadata       |-> r.metadata]

\* Every entry of the list was appended by the call.
OnlyFromCall(list, call) == \A i \in DOMAIN list : list[i][1] = call

\* The steps, decisions and warnings of every returned result are those of
\* its own call: the eight steps, the one decision, and its warnings.
OwnEntriesOnly ==
    \A i \in DOMAIN results :
        LET v == ResultView(heap, results[i])
        IN  /\ Len(v.steps) = 8 /\ OnlyFromCall(v.steps, results[i].call)
            /\ Len(v.decisions) = 1 /\ OnlyFromCall(v.decisions, results[i].call)
            /\ OnlyFromCall(v.warnings, results[i].call)

\* A step leaves what every returned result shows as it was.
ResultsKept ==
    \A i \in DOMAIN results :
        /\ i \in DOMAIN results'
        /\ ResultView(heap', results'[i]) = ResultView(heap, results[i])

\* C7: calls are independent, also on one and the same operator: a result's
\* steps, decisions and warnings hold only entries of its own call, and a
\* later call leaves every result returned before unchanged.
C7_RunsIndependent == []OwnEntriesOnly /\ [][ResultsKept]_vars

\* Two calls on the same operator have returned, with different steps, and
\* the first of the two results has a warning.
C7_Witness ==
    /\ Len(results) >= 2
    /\ results[1].call # results[2].call
    /\ heap[results[1].warnings] # <<>>
    /\ heap[results[1].reasoning.steps] # heap[results[2].reasoning.steps]

\* C8: after dependency inference every non-constraint component has the id
\* of every constraint component among its dependencies, and every constraint
\* component has no dependencies.
C8_ConstraintEdges ==
    AfterPass(5) =>
        \A k \in DOMAIN components :
            IF components[k].type = "constraint"
            THEN components[k].dependencies = <<>>
            ELSE \A j \in DOMAIN components :
                     components[j].type = "constraint"
                         => components[j].id \in Range(components[k].dependencies)

\* Dependency inference is done for a text that yields an entity and two
\* constraints, whose descriptions no sentence of the text mentions.
C8_Witness ==
    /\ AfterPass(5)
    /\ \E k \in DOMAIN components : components[k].type = "entity"
    /\ Cardinality({ k \in DOMAIN components : components[k].type = "constraint" }) = 2
    /\ \A k \in DOMAIN components :
           components[k].type = "constraint"
               => ~Contains(Lower(problem_text), Lower(components[k].description))

\* The description contains a keyword of the canonical sequence.
HasKeyword(description) ==
    \E w \in {"setup", "build", "configure", "test", "deploy", "integrate"} :
        Contains(description, w)

\* The position in the canonical sequence (from 0) of the first of its
\* keywords that the description contains.
KeywordIndex(description) ==
    IF Contains(description, "setup") THEN 0
    ELSE IF Contains(description, "build") THEN 1
    ELSE IF Contains(description, "configure") THEN 2
    ELSE IF Contains(description, "test") THEN 3
    ELSE IF Contains(description, "deploy") THEN 4
    ELSE 5

\* The edge from component c to component t is one the co-mention rules allow.
AllowedEdge(c, t) ==
    /\ c.type = "action"
    /\ \/ t.type = "entity"
       \/ /\ t.type = "action"
          /\ HasKeyword(c.description) /\ HasKeyword(t.description)
          /\ KeywordIndex(t.description) < KeywordIndex(c.description)

\* C9: every dependency edge whose target is not a constraint starts at an
\* action and is action->entity, or action->action with a canonical keyword in
\* both descriptions and the target's keyword index below the source's; so
\* entities depend on no action or entity; no component depends on itself and
\* no two depend on each other.
C9_EdgeShapes ==
    AfterPass(5) =>
        \A k, j \in DOMAIN components :
            components[j].id \in Range(components[k].dependencies) =>
                /\ components[j].type # "constraint"
                       => AllowedEdge(components[k], components[j])
                /\ k # j
                /\ components[k].id \notin Range(components[j].dependencies)

\* Dependency inference has added an edge from an action to an action.
C9_Witness ==
    /\ AfterPass(5)
    /\ \E k, j \in DOMAIN components :
           /\ components[k].type = "action" /\ components[j].type = "action"
           /\ components[j].id \in Range(components[k].dependencies)

\* Dependency inference has added an edge from an action to an entity.
EntityEdgeReached ==
    /\ AfterPass(5)
    /\ \E k, j \in DOMAIN components :
           /\ components[k].type = "action" /\ components[j].type = "entity"
           /\ components[j].id \in Range(components[k].dependencies)

RECURSIVE ReachableFrom(_, _)
\* The ids reachable from the ids of seen along dependency edges.
ReachableFrom(comps, seen) ==
    LET more == UNION { Range(comps[k].dependencies) :
                          k \in { j \in DOMAIN comps : comps[j].id \in seen } }
    IN  IF more \subseteq seen THEN seen ELSE ReachableFrom(comps, seen \cup more)

\* path is the critical path C10 describes for the components comps.
IsCriticalPathOf(comps, path) ==
    /\ path # <<>>
    /\ \E k \in DOMAIN comps :
           /\ comps[k].id = path[1]
           /\ \A j \in DOMAIN comps :
                  comps[j].criticality.score <= comps[k].criticality.score
           /\ \A j \in 1..(k - 1) :
                  comps[j].criticality.score < comps[k].criticality.score
    /\ \A i, j \in DOMAIN path : i # j => path[i] # path[j]
    /\ Range(path) = ReachableFrom(comps, {path[1]})
    /\ \A i \in DOMAIN path :
           \A k \in WithId(comps, path[i]) :
               \A d \in Range(comps[k].dependencies) :
                   \E j \in DOMAIN path : j > i /\ path[j] = d

\* C10: for a non-empty component collection, critical_path starts with the
\* first component of greatest criticality, holds no id twice, holds exactly
\* the ids reachable from that root along dependency edges, and holds every
\* component before each of its dependencies.
C10_CriticalPath ==
    /\ (pc = "finish" /\ components # <<>>)
           => IsCriticalPathOf(components, critical_path)
    /\ \A i \in DOMAIN results :
           results[i].components # <<>>
               => IsCriticalPathOf(results[i].components, results[i].critical_path)

\* A result whose critical path goes from the root on to a dependency of it.
C10_Witness ==
    \E i \in DOMAIN results : Len(results[i].critical_path) >= 2


\* The occurrences of comp_id in the dependencies lists of the components of
\* comps other than number own, as <<component, position>> pairs.
Occurrences(comps, own, comp_id) ==
    { p \in UNION { { <<k, i>> : i \in DOMAIN comps[k].dependencies } :
                      k \in DOMAIN comps \ {own} } :
        comps[p[1]].dependencies[p[2]] = comp_id }

\* The components of comps other than number own that list comp_id.
OtherDependents(comps, own, comp_id) == Dependents(comps, comp_id) \ {own}

\* The coupling score of component number k of comps is
\* min(total / max((N - 1) * 2, 1), 1.0) for total = outgoing + incoming.
CouplingIs(comps, k, incoming) ==
    LET max_possible == Max((Len(comps) - 1) * 2, 1)
        total == Len(comps[k].dependencies) + incoming
    IN  comps[k].coupling.num * max_possible
            = Min(total, max_possible) * comps[k].coupling.den

HasDuplicate(list) == \E i, j \in DOMAIN list : i # j /\ list[i] = list[j]

\* The component lists dependency inference can leave for a call of decompose,
\* one for every order the three extractions can come in.
AfterInference(text, constraints) ==
    { DetectDependencies(BuildComponents(a, e, c), text) :
        a \in ListOrders(ExtractActions(text)),
        e \in ListOrders(ExtractEntities(text)),
        c \in ListOrders(ExtractConstraints(text, constraints)) }

\* C12 as stated: there is an input for which, after dependency inference,
\* some component's dependencies list holds the same id more than once.
C12_DuplicatesPossible ==
    \E text \in Texts, constraints \in Explicits :
        \E comps \in AfterInference(text, constraints) :
            \E k \in DOMAIN comps : HasDuplicate(comps[k].dependencies)

\* C12 amended: after dependency inference no component's dependencies list
\* holds the same id more than once: each ordered pair of components is
\* tried by one rule only, and that rule appends the id once.
C12_NoDuplicateDependencies ==
    AfterPass(5) =>
        \A k \in DOMAIN components : ~HasDuplicate(components[k].dependencies)

\* Dependency inference has given one action both a co-mention edge and a
\* constraint edge.
C12_Witness ==
    /\ AfterPass(5)
    /\ \E k, a, c \in DOMAIN components :
           /\ components[k].type = "action"
           /\ components[a].type # "constraint"
           /\ components[c].type = "constraint"
           /\ components[a].id \in Range(components[k].dependencies)
           /\ components[c].id \in Range(components[k].dependencies)

\* The dependency edges of comps have the three shapes that exclude a cycle:
\* a constraint has none, an entity's go to constraints, and an action's go
\* to constraints, to entities, or to actions earlier in the canonical
\* sequence; and no component is reachable from its own dependencies.
AcyclicShape(comps) ==
    \A k \in DOMAIN comps :
        /\ comps[k].type = "constraint" => comps[k].dependencies = <<>>
        /\ \A d \in Range(comps[k].dependencies) :
               \A j \in WithId(comps, d) :
                   /\ comps[k].type = "entity" => comps[j].type = "constraint"
                   /\ (comps[k].type = "action" /\ comps[j].type = "action")
                         => /\ HasKeyword(comps[k].description)
                            /\ HasKeyword(comps[j].description)
                            /\ KeywordIndex(comps[j].description)
                                 < KeywordIndex(comps[k].description)
        /\ comps[k].id \notin ReachableFrom(comps, Range(comps[k].dependencies))

\* C13: after dependency inference the dependency graph is acyclic, edges
\* having only the shapes above; and every result's max_depth is at least 1,
\* is 1 exactly when no component has a dependency, and is at most the number
\* of components (no walk along dependencies repeats a component).
C13_AcyclicDependencies ==
    /\ AfterPass(5) => AcyclicShape(components)
    /\ \A i \in DOMAIN results :
           LET comps == results[i].components
               depth == results[i].metadata.max_depth
           IN  /\ AcyclicShape(comps)
               /\ depth >= 1
               /\ depth <= Max(Len(comps), 1)
               /\ depth = 1 <=> \A k \in DOMAIN comps : comps[k].dependencies = <<>>

\* A result of depth 3: an action depending on an earlier action that in turn
\* depends on a constraint.
C13_Witness ==
    \E i \in DOMAIN results :
        /\ results[i].metadata.max_depth = 3
        /\ \E k, j \in DOMAIN results[i].components :
               /\ results[i].components[k].type = "action"
               /\ results[i].components[j].type = "action"
               /\ results[i].components[j].id
                     \in Range(results[i].components[k].dependencies)
               /\ results[i].components[j].dependencies # <<>>

\* Between any two components of comps there is at most one dependency edge:
\* no list holds an id twice, and no two components list each other.
AtMostOneEdge(comps) ==
    \A k, j \in DOMAIN comps :
        /\ ~HasDuplicate(comps[k].dependencies)
        /\ ~(/\ comps[j].id \in Range(comps[k].dependencies)
             /\ comps[k].id \in Range(comps[j].dependencies))

\* No coupling score of comps exceeds 0.5.
CouplingAtMostHalf(comps) ==
    \A k \in DOMAIN comps : 2 * comps[k].coupling.num <= comps[k].coupling.den

\* The list of warnings holds no 'highly coupled' warning.
NoCouplingWarning(warnings) ==
    \A i \in DOMAIN warnings : warnings[i][2] # "highly coupled"

ConstraintsOf(comps) == { k \in DOMAIN comps : comps[k].type = "constraint" }

\* comps has a constraint, and no other component has five or more dependents.
ConstraintLeads(comps) ==
    /\ ConstraintsOf(comps) # {}
    /\ \A k \in DOMAIN comps \ ConstraintsOf(comps) :
           Cardinality(Dependents(comps, comps[k].id)) < 5

\* path is the id of the first constraint of comps and nothing else.
IsFirstConstraintAlone(comps, path) ==
    /\ Len(path) = 1
    /\ \E k \in ConstraintsOf(comps) :
           /\ path[1] = comps[k].id
           /\ \A j \in ConstraintsOf(comps) : k <= j

\* C15: when the components include a constraint and no other component has
\* five or more dependents, the critical path is exactly the id of the first
\* constraint in collection order, so that it holds no action and no entity.
C15_CriticalPathIsFirstConstraint ==
    /\ (pc = "finish" /\ ConstraintLeads(components))
           => IsFirstConstraintAlone(components, critical_path)
    /\ \A i \in DOMAIN results :
           ConstraintLeads(results[i].components)
               => /\ IsFirstConstraintAlone(results[i].components,
                                            results[i].critical_path)
                  /\ \A k \in DOMAIN results[i].components :
                         results[i].components[k].id \in Range(results[i].critical_path)
                             => results[i].components[k].type = "constraint"

\* A result with two constraints, listed after an action that another action
\* depends on, whose critical path is one id.
C15_Witness ==
    \E i \in DOMAIN results :
        LET comps == results[i].components
        IN  /\ Cardinality(ConstraintsOf(comps)) = 2
            /\ \E k \in DOMAIN comps :
                   /\ comps[k].type = "action"
                   /\ Dependents(comps, comps[k].id) # {}
                   /\ \A c \in ConstraintsOf(comps) : k < c
            /\ Len(results[i].critical_path) = 1
====
